---- MODULE Spec2Model ----
(***************************************************************************)
(* Model of sheep/gateway.c: the replication gateway of sheepdog.          *)
(*                                                                         *)
(* One gateway call is modelled from entry to return: gateway_read_obj     *)
(* (local-first read, then the randomised remote fallback), and            *)
(* gateway_write_obj / gateway_create_and_write_obj / gateway_remove_obj   *)
(* with gateway_forward_request (send loop) and wait_forward_request       *)
(* (the poll loop).  The collaborators that are not part of the file       *)
(* (connection pool, object cache, local store, transport, poll, the       *)
(* retry oracle) are the environment: each call to one of them is a        *)
(* nondeterministic choice over its possible answers, and the calls the    *)
(* gateway makes to them are recorded in history variables.                *)
(*                                                                         *)
(* Replicas are numbered 0 .. nr_copies-1 as in the C arrays obj_vnodes[]  *)
(* and target_nodes[].  The pending list fi.ent[0 .. nr_sent-1] is the     *)
(* sequence fi, so position p of the model is index p-1 of the code.       *)
(***************************************************************************)
EXTENDS Integers, Sequences, FiniteSets, TLC

\* ---------------------------------------------------------------- bounds
\* Largest replication factor explored (get_req_copy_number).
MaxCopies == 3
\* The retry budget; sheep_priv.h, which sets it, is not part of the file.
MAX_RETRY_COUNT == 2
\* Largest number of EINTR interruptions of poll() in one call.
MaxEintr == 1

\* ------------------------------------------------------------- constants
\* Largest value of a 32-bit signed int, and of random().
INT_MAX == 2147483647
INT_MIN == -INT_MAX - 1

SD_RES_SUCCESS == "SD_RES_SUCCESS"
SD_RES_EIO == "SD_RES_EIO"
SD_RES_NO_OBJ == "SD_RES_NO_OBJ"
SD_RES_NETWORK_ERROR == "SD_RES_NETWORK_ERROR"
SD_RES_READONLY == "SD_RES_READONLY"
\* "no value yet" for a result that has not been produced.
NoResult == "none"

\* Result codes a peer, the local store or the object cache can answer.
PeerResults == {SD_RES_SUCCESS, SD_RES_EIO, SD_RES_NO_OBJ}
\* Result codes sheep_exec_req can return: the peer's, or a transport error.
ExecResults == PeerResults \cup {SD_RES_NETWORK_ERROR}

POLLIN == "POLLIN"
POLLERR == "POLLERR"
POLLHUP == "POLLHUP"
POLLNVAL == "POLLNVAL"
\* The readiness flag sets poll() is let to report for one descriptor: nothing,
\* readable, an error condition with POLLIN, an error condition without it.
\* The code tests the three error flags with one mask, so one of them stands
\* for each case.
Revents == {{}, {POLLIN}, {POLLIN, POLLHUP}, {POLLERR}}

Ops == {"read", "write", "create_and_write", "remove"}

\* Values random() is let to return: every residue for small copy counts,
\* and the top of its range 0 .. 2^31-1.
RandomValues == (0 .. MaxCopies - 1) \cup {INT_MAX - 1, INT_MAX}

\* The data of the object at a replica: what it held before the write, what
\* the write carries, and either of the two while the replica has been sent
\* the write and has not answered success.
OldData == "old"
NewData == "new"
EitherData == "either"

VARIABLES
    op,                  \* which entry point is called
    oid_readonly,        \* oid_is_readonly(oid)
    bypass,              \* bypass_object_cache(req)
    req_local,           \* req->local
    enable_object_cache, \* sys->enable_object_cache
    nr_copies,           \* get_req_copy_number(req)
    local,               \* local[k]: vnode_is_local(obj_vnodes[k])
    pc,                  \* position in the call
    i,                   \* loop index of the send loop / fallback loop
    j,                   \* the random offset of gateway_read_obj
    ret,                 \* the value the entry point returns
    err_ret,             \* err_ret of gateway_forward_request
    fi,                  \* fi.ent[0 .. fi.nr_sent-1], as replica numbers
    w_err_ret,           \* err_ret of wait_forward_request
    repeat,              \* repeat of wait_forward_request
    pollret,             \* last return value of poll()
    pi,                  \* pi.pfds[].revents after the last poll()
    wret,                \* the value wait_forward_request returned
    eintr_cnt,           \* EINTR interruptions so far
    \* history of the calls made to the collaborators
    attempts,            \* replicas sockfd_cache_get was called for, in order
    acquired,            \* replicas whose sockfd_cache_get returned a handle
    send_failed,         \* replicas whose acquisition or send failed
    put_cnt,             \* sockfd_cache_put calls per replica
    del_cnt,             \* sockfd_cache_del calls per replica
    delnode_cnt,         \* sockfd_cache_del_node calls per replica
    cache_calls,         \* object_cache_handle_request calls
    local_reads,         \* results of the peer_read_obj calls, in order
    rpc_log,             \* sheep_exec_req calls: <<replica, result>>, in order
    nr_timeouts,         \* polls that timed out
    other_polls,         \* some poll did not time out
    retry_denied,        \* sheep_need_retry answered false to a timeout
    timed_out,           \* wait_forward_request returned on the timeout path
    hdr_read,            \* replicas whose response header do_read has read
    any_failed,          \* the waiter met an error flag, a failed do_read, a
                         \* non-success result code or the final timeout
    store,               \* store[k]: the object's data at replica k
    \* two write calls to one object that run at the same time
    cw_pc,               \* cw_pc[c]: position of call c
    cw_i,                \* cw_i[c]: index of the send loop of call c
    cw_fi,               \* cw_fi[c]: fi.ent[] of call c, as replica numbers
    cw_err_ret,          \* cw_err_ret[c]: err_ret of call c
    inflight,            \* inflight[c]: replicas sent call c's write that
                         \* have not applied it yet
    answered,            \* answered[c]: replicas whose answer to call c is
                         \* in the socket
    applied,             \* applied[k]: the calls replica k applied, in order
    cw_after             \* cw_after[c]: call c was issued after the other
                         \* call had returned success

reqVars == <<op, oid_readonly, bypass, req_local, enable_object_cache,
             nr_copies, local>>
readVars == <<j, local_reads, rpc_log>>
poolVars == <<attempts, acquired, send_failed, put_cnt, del_cnt, delnode_cnt>>
waitVars == <<fi, w_err_ret, repeat, pollret, pi, wret, eintr_cnt,
              nr_timeouts, other_polls, retry_denied, timed_out, hdr_read,
              any_failed>>
concVars == <<cw_pc, cw_i, cw_fi, cw_err_ret, inflight, answered, applied,
              cw_after>>
vars == <<reqVars, pc, i, ret, err_ret, cache_calls, readVars, poolVars,
          waitVars, store, concVars>>

Calls == {1, 2}

Replicas == 0 .. nr_copies - 1

\* ------------------------------------------------------------- helpers
RemoveAt(s, p) == [k \in 1 .. Len(s) - 1 |-> IF k < p THEN s[k] ELSE s[k + 1]]

Range(s) == {s[k] : k \in 1 .. Len(s)}

Bump(cnt, n) == [cnt EXCEPT ![n] = @ + 1]

\* i + j in 32-bit signed arithmetic.  The sum of two ints that does not fit
\* is undefined in C; the builds in use wrap it around.
IntAdd(a, b) == IF b > INT_MAX - a THEN INT_MIN + (a - (INT_MAX - b) - 1) ELSE a + b

\* a % n of C for n > 0: the remainder has the sign of a.
CRem(a, n) ==
    IF a >= 0 THEN a % n
    ELSE LET m == a % n IN IF m = 0 THEN 0 ELSE m - n

\* int idx = (i + j) % nr_copies;
FallbackIdx(ii, jj, n) == CRem(IntAdd(ii, jj), n)

\* ------------------------------------------------------------------ Init
\* No call of the pair of concurrent writes has been issued.
ConcIdle ==
    /\ cw_pc = [c \in Calls |-> "start"]
    /\ cw_i = [c \in Calls |-> 0]
    /\ cw_fi = [c \in Calls |-> <<>>]
    /\ cw_err_ret = [c \in Calls |-> SD_RES_SUCCESS]
    /\ inflight = [c \in Calls |-> {}]
    /\ answered = [c \in Calls |-> {}]
    /\ applied = [k \in 0 .. nr_copies - 1 |-> <<>>]
    /\ cw_after = [c \in Calls |-> FALSE]

Init ==
    /\ op \in Ops
    /\ nr_copies \in 1 .. MaxCopies
    /\ bypass \in (IF op = "remove" THEN {TRUE} ELSE BOOLEAN)
    /\ oid_readonly \in (IF op \in {"write", "create_and_write"} THEN BOOLEAN ELSE {FALSE})
    /\ req_local \in (IF op = "read" THEN BOOLEAN ELSE {FALSE})
    /\ enable_object_cache \in (IF op = "read" THEN BOOLEAN ELSE {FALSE})
    /\ local \in (IF op = "read" THEN [0 .. nr_copies - 1 -> BOOLEAN]
                  ELSE {[k \in 0 .. nr_copies - 1 |-> FALSE]})
    /\ pc = "start"
    /\ i = 0
    /\ j = 0
    /\ ret = NoResult
    /\ err_ret = SD_RES_SUCCESS
    /\ fi = <<>>
    /\ w_err_ret = SD_RES_SUCCESS
    /\ repeat = MAX_RETRY_COUNT
    /\ pollret = 0
    /\ pi = <<>>
    /\ wret = NoResult
    /\ eintr_cnt = 0
    /\ attempts = <<>>
    /\ acquired = {}
    /\ send_failed = {}
    /\ put_cnt = [k \in 0 .. nr_copies - 1 |-> 0]
    /\ del_cnt = [k \in 0 .. nr_copies - 1 |-> 0]
    /\ delnode_cnt = [k \in 0 .. nr_copies - 1 |-> 0]
    /\ cache_calls = 0
    /\ local_reads = <<>>
    /\ rpc_log = <<>>
    /\ nr_timeouts = 0
    /\ other_polls = FALSE
    /\ retry_denied = FALSE
    /\ timed_out = FALSE
    /\ hdr_read = {}
    /\ any_failed = FALSE
    /\ store = [k \in 0 .. nr_copies - 1 |-> OldData]
    /\ ConcIdle

\* The call returns r.
Return(r) ==
    /\ ret' = r
    /\ pc' = "done"

\* object_cache_handle_request(req): the cache layer answers any result code.
CacheRequest ==
    /\ cache_calls' = cache_calls + 1
    /\ \E r \in PeerResults : Return(r)

\* ------------------------------------------------------- gateway_read_obj
\* The test that sends a read to the object cache.
ReadUsesCache(enable, loc, byp) == enable /\ ~loc /\ ~byp

\* The first replica of obj_vnodes[] that is local, or -1.
FirstLocal(loc, n) ==
    IF \E k \in 0 .. n - 1 : loc[k]
    THEN CHOOSE k \in 0 .. n - 1 : loc[k] /\ \A m \in 0 .. k - 1 : ~loc[m]
    ELSE -1

\* The local-first loop leaves the function when the local read succeeded.
LocalReadNeverDone(r) == FALSE
LocalReadDone(r) == r = SD_RES_SUCCESS

\* gateway_read_obj, from entry to the end of the local-first loop.
GatewayReadObj ==
    /\ pc = "start"
    /\ op = "read"
    /\ UNCHANGED <<concVars, store, reqVars, i, j, err_ret, rpc_log, poolVars, waitVars>>
    /\ \/ /\ ReadUsesCache(enable_object_cache, req_local, bypass)
          /\ CacheRequest
          /\ UNCHANGED local_reads
       \/ /\ ~ReadUsesCache(enable_object_cache, req_local, bypass)
          /\ FirstLocal(local, nr_copies) = -1
          /\ ret' = SD_RES_SUCCESS
          /\ pc' = "random"
          /\ UNCHANGED <<cache_calls, local_reads>>
       \/ /\ ~ReadUsesCache(enable_object_cache, req_local, bypass)
          /\ FirstLocal(local, nr_copies) # -1
          /\ \E r \in PeerResults :
                /\ local_reads' = Append(local_reads, r)
                /\ ret' = r
                /\ pc' = IF LocalReadDone(r) THEN "done" ELSE "random"
          /\ UNCHANGED cache_calls

\* j = random(); and the fallback loop starts at i = 0.
ReadRandom ==
    /\ pc = "random"
    /\ j' \in RandomValues
    /\ i' = 0
    /\ pc' = "fallback"
    /\ UNCHANGED <<concVars, store, reqVars, ret, err_ret, cache_calls, local_reads, rpc_log,
                   poolVars, waitVars>>

\* The fallback loop is over after nr_copies iterations.
FallbackNext(ii, n) == IF ii + 1 < n THEN "fallback" ELSE "done"

\* The fallback loop stops at the first remote read that succeeds.
FallbackStop(r) == r = SD_RES_SUCCESS

\* The body of the fallback loop for the replica v = obj_vnodes[idx].
FallbackVisitRetry(v) ==
    \/ /\ local[v]
       /\ pc' = FallbackNext(i, nr_copies)
       /\ i' = i + 1
       /\ UNCHANGED <<ret, rpc_log>>
    \/ /\ ~local[v]
       /\ \E r \in ExecResults :
             /\ rpc_log' = rpc_log \o <<<<v, SD_RES_NETWORK_ERROR>>, <<v, r>>>>
             /\ ret' = r
             /\ IF FallbackStop(r)
                THEN pc' = "done" /\ i' = i
                ELSE pc' = FallbackNext(i, nr_copies) /\ i' = i + 1
FallbackVisit(v) ==
    \/ /\ local[v]
       /\ pc' = FallbackNext(i, nr_copies)
       /\ i' = i + 1
       /\ UNCHANGED <<ret, rpc_log>>
    \/ /\ ~local[v]
       /\ \E r \in ExecResults :
             /\ rpc_log' = Append(rpc_log, <<v, r>>)
             /\ ret' = r
             /\ IF FallbackStop(r)
                THEN pc' = "done" /\ i' = i
                ELSE pc' = FallbackNext(i, nr_copies) /\ i' = i + 1

\* One iteration of the fallback loop.  When idx is outside obj_vnodes[] the
\* read of obj_vnodes[idx] is undefined: the process faults, or the word read
\* from the stack happens to be one of the vnode pointers stored next to it.
ReadFallback ==
    /\ pc = "fallback"
    /\ i < nr_copies
    /\ UNCHANGED <<concVars, store, reqVars, j, err_ret, cache_calls, local_reads, poolVars,
                   waitVars>>
    /\ LET idx == FallbackIdx(i, j, nr_copies) IN
          \/ /\ idx \in Replicas
             /\ FallbackVisit(idx)
          \/ /\ idx \notin Replicas
             /\ \E v \in Replicas : FallbackVisit(v)
          \/ /\ idx \notin Replicas
             /\ pc' = "fault"
             /\ UNCHANGED <<i, ret, rpc_log>>

\* ------------------------------------------------ gateway_forward_request
\* Where gateway_write_obj and gateway_create_and_write_obj send a request.
WriteRouteCacheFirst(ro, byp) ==
    IF ~byp THEN "cache" ELSE IF ro THEN "readonly" ELSE "forward"
WriteRoute(ro, byp) ==
    IF ro THEN "readonly" ELSE IF ~byp THEN "cache" ELSE "forward"

\* The body shared by gateway_write_obj and gateway_create_and_write_obj.
WriteClass ==
    /\ UNCHANGED <<concVars, store, reqVars, i, err_ret, readVars, poolVars, waitVars>>
    /\ \/ /\ WriteRoute(oid_readonly, bypass) = "readonly"
          /\ Return(SD_RES_READONLY)
          /\ UNCHANGED cache_calls
       \/ /\ WriteRoute(oid_readonly, bypass) = "cache"
          /\ CacheRequest
       \/ /\ WriteRoute(oid_readonly, bypass) = "forward"
          /\ pc' = "send"
          /\ UNCHANGED <<ret, cache_calls>>

GatewayWriteObj ==
    /\ pc = "start"
    /\ op = "write"
    /\ WriteClass

GatewayCreateAndWriteObj ==
    /\ pc = "start"
    /\ op = "create_and_write"
    /\ WriteClass

GatewayRemoveObj ==
    /\ pc = "start"
    /\ op = "remove"
    /\ pc' = "send"
    /\ UNCHANGED <<concVars, store, reqVars, i, ret, err_ret, cache_calls, readVars, poolVars,
                   waitVars>>

\* The send loop after the iteration for replica ii went through.
SendNext(ii, n) == IF ii + 1 < n THEN "send" ELSE "sent"

\* The send loop after the acquisition or send for replica ii failed: break.
SendContinues(ii, n) == IF ii + 1 < n THEN "send" ELSE "sent"
SendBreak(ii, n) == "sent"

\* forward_info_advance(&fi, nid, sfd)
forward_info_advance(f, n) == Append(f, n)

\* The replica n has been sent the request: a write is applied by the
\* replica at some time after that.
StoreSent(st, n) ==
    IF op \in {"write", "create_and_write"}
    THEN [st EXCEPT ![n] = EitherData]
    ELSE st

\* The replica n answered the result code r: a replica that answers success
\* to a write has applied it.
StoreAnswered(st, n, r) ==
    IF op \in {"write", "create_and_write"} /\ r = SD_RES_SUCCESS
    THEN [st EXCEPT ![n] = NewData]
    ELSE st

\* One iteration of the send loop of gateway_forward_request.
ForwardSend ==
    /\ pc = "send"
    /\ i < nr_copies
    /\ attempts' = Append(attempts, i)
    /\ UNCHANGED <<concVars, reqVars, ret, cache_calls, readVars, put_cnt, del_cnt>>
    /\ UNCHANGED <<w_err_ret, repeat, pollret, pi, wret, eintr_cnt,
                   nr_timeouts, other_polls, retry_denied, timed_out,
                   hdr_read, any_failed>>
    /\ \/ /\ err_ret' = SD_RES_NETWORK_ERROR      \* sockfd_cache_get: NULL
          /\ send_failed' = send_failed \cup {i}
          /\ pc' = SendBreak(i, nr_copies)
          /\ UNCHANGED <<acquired, delnode_cnt, fi, store>>
       \/ /\ acquired' = acquired \cup {i}        \* send_req fails
          /\ delnode_cnt' = Bump(delnode_cnt, i)
          /\ err_ret' = SD_RES_NETWORK_ERROR
          /\ send_failed' = send_failed \cup {i}
          /\ pc' = SendBreak(i, nr_copies)
          /\ UNCHANGED <<fi, store>>
       \/ /\ acquired' = acquired \cup {i}        \* sent
          /\ fi' = forward_info_advance(fi, i)
          /\ store' = StoreSent(store, i)
          /\ pc' = SendNext(i, nr_copies)
          /\ UNCHANGED <<err_ret, send_failed, delnode_cnt>>
    /\ i' = IF pc' = "send" THEN i + 1 ELSE i

\* if (ret != SD_RES_SUCCESS) err_ret = ret;  return err_ret;
ForwardResultMasked(err, w) == w
ForwardResult(err, w) == IF w # SD_RES_SUCCESS THEN w ELSE err

\* After the send loop: wait when something was sent, else return err_ret.
ForwardSent ==
    /\ pc = "sent"
    /\ UNCHANGED <<concVars, store, reqVars, i, err_ret, cache_calls, readVars, poolVars>>
    /\ UNCHANGED <<fi, pollret, pi, wret, eintr_cnt,
                   nr_timeouts, other_polls, retry_denied, timed_out,
                   hdr_read, any_failed>>
    /\ \/ /\ Len(fi) > 0
          /\ w_err_ret' = SD_RES_SUCCESS
          /\ repeat' = MAX_RETRY_COUNT
          /\ pc' = "again"
          /\ UNCHANGED ret
       \/ /\ Len(fi) = 0
          /\ Return(ForwardResult(err_ret, SD_RES_SUCCESS))
          /\ UNCHANGED <<w_err_ret, repeat>>

\* --------------------------------------------------- wait_forward_request
\* wait_forward_request returns w, and gateway_forward_request returns.
WaitReturn(w) ==
    /\ wret' = w
    /\ Return(ForwardResult(err_ret, w))

\* pollret of a poll that reported revs: the descriptors with a flag set.
PollCount(revs) == Cardinality({k \in 1 .. Len(revs) : revs[k] # {}})

\* again: pfd_info_init and poll.  EINTR polls again at once; any other
\* failure of poll is a panic.
WaitPoll ==
    /\ pc = "again"
    /\ UNCHANGED <<concVars, store, reqVars, i, ret, err_ret, cache_calls, readVars, poolVars>>
    /\ UNCHANGED <<fi, w_err_ret, repeat, wret, nr_timeouts, retry_denied,
                   timed_out, hdr_read, any_failed>>
    /\ \/ /\ eintr_cnt < MaxEintr
          /\ eintr_cnt' = eintr_cnt + 1
          /\ other_polls' = TRUE
          /\ UNCHANGED <<pc, pollret, pi>>
       \/ /\ pc' = "panic"
          /\ other_polls' = TRUE
          /\ UNCHANGED <<pollret, pi, eintr_cnt>>
       \/ /\ \E revs \in [1 .. Len(fi) -> Revents] :
                /\ pi' = revs
                /\ pollret' = PollCount(revs)
                /\ other_polls' = (other_polls \/ PollCount(revs) > 0)
          /\ pc' = "polled"
          /\ UNCHANGED eintr_cnt

\* if (sheep_need_retry(req->rq.epoch) && repeat)
WaitRetryShort(need, rep) == need /\ rep > 1
WaitRetryOver(need, rep) == need /\ rep >= 0
WaitRetry(need, rep) == need /\ rep > 0

\* for (i = 0; i < nr_sent; i++) sockfd_cache_del(fi->ent[i].nid, ...);
EvictAll(cnt, f) ==
    [n \in DOMAIN cnt |-> IF n \in Range(f) THEN cnt[n] + 1 ELSE cnt[n]]

\* pollret == 0: poll again while the retry oracle and the budget allow it,
\* else evict every pending connection and return the network error.
WaitTimeout ==
    /\ pc = "polled"
    /\ pollret = 0
    /\ nr_timeouts' = nr_timeouts + 1
    /\ UNCHANGED <<concVars, store, reqVars, i, err_ret, cache_calls, readVars>>
    /\ UNCHANGED <<attempts, acquired, send_failed, put_cnt, delnode_cnt>>
    /\ UNCHANGED <<fi, w_err_ret, pollret, pi, eintr_cnt, other_polls,
                   hdr_read>>
    /\ \E need \in BOOLEAN :
          \/ /\ WaitRetry(need, repeat)
             /\ repeat' = repeat - 1
             /\ pc' = "again"
             /\ UNCHANGED <<ret, wret, del_cnt, retry_denied, timed_out,
                            any_failed>>
          \/ /\ ~WaitRetry(need, repeat)
             /\ del_cnt' = EvictAll(del_cnt, fi)
             /\ retry_denied' = ~need
             /\ timed_out' = TRUE
             /\ any_failed' = TRUE
             /\ WaitReturn(SD_RES_NETWORK_ERROR)
             /\ UNCHANGED repeat

\* for (i = 0; i < nr_sent; i++) if (pi.pfds[i].revents & POLLIN) break;
\* The position found, or 0 when the loop runs to nr_sent.
FirstPollin(revs) ==
    IF \E k \in 1 .. Len(revs) : POLLIN \in revs[k]
    THEN CHOOSE k \in 1 .. Len(revs) :
            POLLIN \in revs[k] /\ \A m \in 1 .. k - 1 : POLLIN \notin revs[m]
    ELSE 0

\* forward_info_update(fi, pos)
forward_info_update(f, p) == RemoveAt(f, p)

\* finish_one_entry(fi, i)
finish_one_entry(p) ==
    /\ put_cnt' = Bump(put_cnt, fi[p])
    /\ fi' = forward_info_update(fi, p)
    /\ UNCHANGED del_cnt

\* finish_one_entry_err(fi, i)
finish_one_entry_leak(p) ==
    /\ fi' = forward_info_update(fi, p)
    /\ UNCHANGED <<put_cnt, del_cnt>>
finish_one_entry_err(p) ==
    /\ del_cnt' = Bump(del_cnt, fi[p])
    /\ fi' = forward_info_update(fi, p)
    /\ UNCHANGED put_cnt

\* ret = rsp->result; if (ret != SD_RES_SUCCESS) err_ret = ret;
WaitResultLast(err, r) == r
WaitResult(err, r) == IF r # SD_RES_SUCCESS THEN r ELSE err

\* out: if (fi->nr_sent > 0) goto again;
WaitOutEarly(nr_sent) == nr_sent > 1
WaitOutAgain(nr_sent) == nr_sent > 0

\* out: poll again while entries are pending, else return err_ret.
WaitOutResume ==
    IF WaitOutAgain(Len(fi'))
    THEN pc' = "again" /\ UNCHANGED <<ret, wret>>
    ELSE IF send_failed # {} /\ i + 1 < nr_copies
         THEN pc' = "send" /\ UNCHANGED <<ret, wret>>
         ELSE WaitReturn(w_err_ret')
WaitOut ==
    IF WaitOutAgain(Len(fi'))
    THEN pc' = "again" /\ UNCHANGED <<ret, wret>>
    ELSE WaitReturn(w_err_ret')

\* pollret > 0: handle the first entry that is readable, if there is one.
WaitHandle ==
    /\ pc = "polled"
    /\ pollret > 0
    /\ UNCHANGED <<concVars, reqVars, i, err_ret, cache_calls, readVars>>
    /\ UNCHANGED <<attempts, acquired, send_failed, delnode_cnt>>
    /\ UNCHANGED <<repeat, pollret, pi, eintr_cnt, nr_timeouts, other_polls,
                   retry_denied, timed_out>>
    /\ LET p == FirstPollin(pi) IN
          \/ /\ p = 0
             /\ UNCHANGED <<fi, w_err_ret, put_cnt, del_cnt, hdr_read,
                            any_failed, store>>
          \/ /\ p > 0
             /\ pi[p] \cap {POLLERR, POLLHUP, POLLNVAL} # {}
             /\ w_err_ret' = SD_RES_NETWORK_ERROR
             /\ any_failed' = TRUE
             /\ finish_one_entry_err(p)
             /\ UNCHANGED <<hdr_read, store>>
          \/ /\ p > 0
             /\ pi[p] \cap {POLLERR, POLLHUP, POLLNVAL} = {}
             /\ w_err_ret' = SD_RES_NETWORK_ERROR   \* do_read fails
             /\ any_failed' = TRUE
             /\ finish_one_entry_err(p)
             /\ UNCHANGED <<hdr_read, store>>
          \/ /\ p > 0
             /\ pi[p] \cap {POLLERR, POLLHUP, POLLNVAL} = {}
             /\ \E r \in PeerResults :              \* rsp->result
                   /\ w_err_ret' = WaitResult(w_err_ret, r)
                   /\ any_failed' = (any_failed \/ r # SD_RES_SUCCESS)
                   /\ store' = StoreAnswered(store, fi[p], r)
             /\ hdr_read' = hdr_read \cup {fi[p]}
             /\ finish_one_entry(p)
    /\ WaitOut

\* ---------------------------------------------------- write, then read
\* The caller of the gateway: after a write that was forwarded and returned
\* success, a read of the same object is issued with the cache bypassed.
\* The replicas keep their data; everything else is the state of a new call.
ReadAfterWrite ==
    /\ pc = "done"
    /\ op \in {"write", "create_and_write"}
    /\ attempts # <<>>
    /\ ret = SD_RES_SUCCESS
    /\ op' = "read"
    /\ bypass' = TRUE
    /\ enable_object_cache' \in BOOLEAN
    /\ local' \in [0 .. nr_copies - 1 -> BOOLEAN]
    /\ pc' = "start"
    /\ i' = 0
    /\ ret' = NoResult
    /\ err_ret' = SD_RES_SUCCESS
    /\ fi' = <<>>
    /\ w_err_ret' = SD_RES_SUCCESS
    /\ repeat' = MAX_RETRY_COUNT
    /\ pollret' = 0
    /\ pi' = <<>>
    /\ wret' = NoResult
    /\ eintr_cnt' = 0
    /\ attempts' = <<>>
    /\ acquired' = {}
    /\ send_failed' = {}
    /\ put_cnt' = [k \in 0 .. nr_copies - 1 |-> 0]
    /\ del_cnt' = [k \in 0 .. nr_copies - 1 |-> 0]
    /\ delnode_cnt' = [k \in 0 .. nr_copies - 1 |-> 0]
    /\ nr_timeouts' = 0
    /\ other_polls' = FALSE
    /\ retry_denied' = FALSE
    /\ timed_out' = FALSE
    /\ hdr_read' = {}
    /\ any_failed' = FALSE
    /\ UNCHANGED <<concVars, store, oid_readonly, req_local, nr_copies, j, cache_calls,
                   local_reads, rpc_log>>

\* The replica whose data a read that returned success hands to the caller:
\* the local replica when peer_read_obj succeeded, else the replica of the
\* last sheep_exec_req; -1 when no replica served the read.
ReadServer ==
    IF local_reads # <<>> /\ local_reads[Len(local_reads)] = SD_RES_SUCCESS
    THEN FirstLocal(local, nr_copies)
    ELSE IF rpc_log # <<>> /\ rpc_log[Len(rpc_log)][2] = SD_RES_SUCCESS
         THEN rpc_log[Len(rpc_log)][1]
         ELSE -1

\* ------------------------------------------ two writes at the same time
\* Two invocations of gateway_write_obj for one object, each with its own
\* forward_info and its own connections from the pool, run their send loops
\* and their waits in any interleaving.  The replicas answer success; a
\* connection may fail to be acquired or sent on, and a wait may time out.
OtherCall(c) == 3 - c

ConcInit ==
    /\ op = "write"
    /\ nr_copies \in 1 .. MaxCopies
    /\ bypass = TRUE
    /\ oid_readonly = FALSE
    /\ req_local = FALSE
    /\ enable_object_cache = FALSE
    /\ local = [k \in 0 .. nr_copies - 1 |-> FALSE]
    /\ pc = "start"
    /\ i = 0
    /\ j = 0
    /\ ret = NoResult
    /\ err_ret = SD_RES_SUCCESS
    /\ fi = <<>>
    /\ w_err_ret = SD_RES_SUCCESS
    /\ repeat = MAX_RETRY_COUNT
    /\ pollret = 0
    /\ pi = <<>>
    /\ wret = NoResult
    /\ eintr_cnt = 0
    /\ attempts = <<>>
    /\ acquired = {}
    /\ send_failed = {}
    /\ put_cnt = [k \in 0 .. nr_copies - 1 |-> 0]
    /\ del_cnt = [k \in 0 .. nr_copies - 1 |-> 0]
    /\ delnode_cnt = [k \in 0 .. nr_copies - 1 |-> 0]
    /\ cache_calls = 0
    /\ local_reads = <<>>
    /\ rpc_log = <<>>
    /\ nr_timeouts = 0
    /\ other_polls = FALSE
    /\ retry_denied = FALSE
    /\ timed_out = FALSE
    /\ hdr_read = {}
    /\ any_failed = FALSE
    /\ store = [k \in 0 .. nr_copies - 1 |-> OldData]
    /\ ConcIdle

singleVars == <<reqVars, pc, i, ret, err_ret, cache_calls, readVars, poolVars,
                waitVars, store>>

\* Call c has returned success.
ConcSucceeded(c) == cw_pc[c] = "done" /\ cw_err_ret[c] = SD_RES_SUCCESS

\* gateway_write_obj is called: call c enters the send loop.
ConcIssue(c) ==
    /\ cw_pc[c] = "start"
    /\ cw_pc' = [cw_pc EXCEPT ![c] = "send"]
    /\ cw_after' = [cw_after EXCEPT ![c] = ConcSucceeded(OtherCall(c))]
    /\ UNCHANGED <<singleVars, cw_i, cw_fi, cw_err_ret, inflight, answered,
                   applied>>

\* One iteration of the send loop of call c.
ConcSend(c) ==
    /\ cw_pc[c] = "send"
    /\ cw_i[c] < nr_copies
    /\ UNCHANGED <<singleVars, answered, applied, cw_after>>
    /\ \/ /\ cw_err_ret' = [cw_err_ret EXCEPT ![c] = SD_RES_NETWORK_ERROR]
          /\ cw_pc' = [cw_pc EXCEPT ![c] = SendBreak(cw_i[c], nr_copies)]
          /\ UNCHANGED <<cw_fi, inflight>>
       \/ /\ cw_fi' = [cw_fi EXCEPT ![c] = forward_info_advance(@, cw_i[c])]
          /\ inflight' = [inflight EXCEPT ![c] = @ \cup {cw_i[c]}]
          /\ cw_pc' = [cw_pc EXCEPT ![c] = SendNext(cw_i[c], nr_copies)]
          /\ UNCHANGED cw_err_ret
    /\ cw_i' = [cw_i EXCEPT ![c] = IF cw_pc'[c] = "send" THEN @ + 1 ELSE @]

\* After the send loop of call c: wait when something was sent, else return.
ConcSent(c) ==
    /\ cw_pc[c] = "sent"
    /\ cw_pc' = [cw_pc EXCEPT ![c] = IF Len(cw_fi[c]) > 0 THEN "again" ELSE "done"]
    /\ UNCHANGED <<singleVars, cw_i, cw_fi, cw_err_ret, inflight, answered,
                   applied, cw_after>>

\* The replica n takes call c's write off its connection, applies it and
\* answers success.
ReplicaApply(c, n) ==
    /\ n \in inflight[c]
    /\ inflight' = [inflight EXCEPT ![c] = @ \ {n}]
    /\ applied' = [applied EXCEPT ![n] = Append(@, c)]
    /\ answered' = [answered EXCEPT ![c] = @ \cup {n}]
    /\ UNCHANGED <<singleVars, cw_pc, cw_i, cw_fi, cw_err_ret, cw_after>>

\* revents of call c's entries: POLLIN where the answer has arrived.
ConcRevents(c) ==
    [k \in 1 .. Len(cw_fi[c]) |->
        IF cw_fi[c][k] \in answered[c] THEN {POLLIN} ELSE {}]

\* A pass of call c's wait whose poll reports an answer: the first readable
\* entry is read and finished, and the wait goes on or returns.
ConcHandle(c) ==
    /\ cw_pc[c] = "again"
    /\ FirstPollin(ConcRevents(c)) > 0
    /\ cw_fi' = [cw_fi EXCEPT
                    ![c] = forward_info_update(@, FirstPollin(ConcRevents(c)))]
    /\ cw_pc' = [cw_pc EXCEPT
                    ![c] = IF WaitOutAgain(Len(cw_fi'[c])) THEN "again" ELSE "done"]
    /\ UNCHANGED <<singleVars, cw_i, cw_err_ret, inflight, answered, applied,
                   cw_after>>

\* A pass of call c's wait whose poll times out for the last time: the
\* pending entries are dropped and the call returns the network error.
ConcTimeout(c) ==
    /\ cw_pc[c] = "again"
    /\ FirstPollin(ConcRevents(c)) = 0
    /\ cw_fi' = [cw_fi EXCEPT ![c] = <<>>]
    /\ cw_err_ret' = [cw_err_ret EXCEPT ![c] = SD_RES_NETWORK_ERROR]
    /\ cw_pc' = [cw_pc EXCEPT ![c] = "done"]
    /\ UNCHANGED <<singleVars, cw_i, inflight, answered, applied, cw_after>>

ConcNext ==
    \/ \E c \in Calls : ConcIssue(c)
    \/ \E c \in Calls : ConcSend(c)
    \/ \E c \in Calls : ConcSent(c)
    \/ \E c \in Calls : \E n \in Replicas : ReplicaApply(c, n)
    \/ \E c \in Calls : ConcHandle(c)
    \/ \E c \in Calls : ConcTimeout(c)

ConcSpec == ConcInit /\ [][ConcNext]_vars

\* ------------------------------------------------------------------ Next
Next ==
    \/ GatewayReadObj
    \/ ReadRandom
    \/ ReadFallback
    \/ GatewayWriteObj
    \/ GatewayCreateAndWriteObj
    \/ GatewayRemoveObj
    \/ ForwardSend
    \/ ForwardSent
    \/ WaitPoll
    \/ WaitTimeout
    \/ WaitHandle
    \/ ReadAfterWrite

Spec == Init /\ [][Next]_vars

\* The process never stops by itself in the middle of a call.
FairSpec == Spec /\ WF_vars(Next)

Done == pc \in {"done", "panic", "fault"}

TypeOK ==
    /\ pc \in {"start", "random", "fallback", "send", "sent", "again",
               "polled", "done", "panic", "fault"}
    /\ Len(fi) <= nr_copies
    /\ repeat \in 0 .. MAX_RETRY_COUNT
    /\ ret \in ExecResults \cup {SD_RES_READONLY, NoResult}

\* ---------------------------------------------------------------- claims
Forwarded == pc \notin {"start", "send"} /\ attempts # <<>>

\* Replicas whose request was sent: the entries handed to the waiter.
SentSet == acquired \ send_failed

\* The number of pool calls that dispose of replica n's connection.
Disposals(n) == put_cnt[n] + del_cnt[n] + delnode_cnt[n]

\* C1: when the acquisition or the send failed for a replica and
\* wait_forward_request then returns success for the replicas already sent,
\* gateway_forward_request returns the network error.
C1_SendFailureNotMasked ==
    (pc = "done" /\ send_failed # {} /\ wret = SD_RES_SUCCESS)
        => ret = SD_RES_NETWORK_ERROR

\* C1 witness: N = 3, A and B sent and answered success, the acquisition for
\* C failed, and the call returned.
C1_Witness ==
    /\ pc = "done"
    /\ nr_copies = 3
    /\ attempts = <<0, 1, 2>>
    /\ send_failed = {2}
    /\ acquired = {0, 1}
    /\ put_cnt[0] = 1 /\ put_cnt[1] = 1
    /\ wret = SD_RES_SUCCESS
    /\ ret = SD_RES_NETWORK_ERROR

\* C2: when the send phase failed for some replica and succeeded for others,
\* the call returns the network error whatever the replicas already sent do.
C2_PartialSendReturnsNetworkError ==
    (pc = "done" /\ send_failed # {} /\ SentSet # {})
        => ret = SD_RES_NETWORK_ERROR

\* C3: wait_forward_request returns only with the pending set empty, or on a
\* poll timeout that is not retried (retry refused or budget used up), every
\* entry still pending then evicted; an error on one entry never makes it
\* return while other entries are pending.
C3_DrainDiscipline ==
    wret # NoResult =>
        \/ Len(fi) = 0
        \/ /\ timed_out
           /\ pollret = 0
           /\ retry_denied \/ repeat = 0
           /\ wret = SD_RES_NETWORK_ERROR
           /\ \A n \in Range(fi) : del_cnt[n] = 1

\* C3 witness: a three-entry session in which one entry failed with a network
\* error and the other two were still read before the waiter returned.
C3_Witness ==
    /\ wret = SD_RES_NETWORK_ERROR
    /\ ~timed_out
    /\ Len(fi) = 0
    /\ Cardinality(SentSet) = 3
    /\ Cardinality({n \in Replicas : del_cnt[n] = 1}) = 1
    /\ Cardinality({n \in Replicas : put_cnt[n] = 1}) = 2

\* C4: every connection obtained from the pool is released or evicted at most
\* once and never both, nothing is released or evicted that was not obtained,
\* and when the call has returned each one has been released or evicted.
C4_NoConnectionLeak ==
    /\ \A n \in Replicas :
          /\ Disposals(n) <= 1
          /\ n \notin acquired => Disposals(n) = 0
          /\ delnode_cnt[n] = 1 => n \in send_failed
          /\ n \in Range(fi) /\ ~timed_out => Disposals(n) = 0
    /\ pc = "done" => \A n \in acquired : Disposals(n) = 1

\* C4 witness: a call that returned after one connection was released, one
\* evicted by the waiter and one evicted after a failed send.
C4_Witness ==
    /\ pc = "done"
    /\ \E n \in acquired : put_cnt[n] = 1
    /\ \E n \in acquired : del_cnt[n] = 1
    /\ \E n \in acquired : delnode_cnt[n] = 1

\* The replicas 0 .. m-1 in the order of target_nodes[].
FirstReplicas(m) == [k \in 1 .. m |-> k - 1]

\* C5 as stated: gateway_remove_obj attempts an exchange with each of the
\* nr_copies target nodes, even when an earlier acquisition or send failed.
C5_RemoveAttemptsAll ==
    (pc = "done" /\ op = "remove") => Len(attempts) = nr_copies

\* C5 amended: gateway_remove_obj attempts the target nodes in order and
\* stops at the first whose acquisition or send fails: all nr_copies when
\* none fails, else the nodes up to and including the failed one.
C5_RemoveAttemptsUntilFailure ==
    (Forwarded /\ op = "remove") =>
        /\ Cardinality(send_failed) <= 1
        /\ send_failed = {} => attempts = FirstReplicas(nr_copies)
        /\ \A f \in send_failed : attempts = FirstReplicas(f + 1)

\* C5 witness: a remove with three target nodes returned after the exchange
\* with the first node failed; the other two were never attempted.
C5_Witness ==
    /\ pc = "done"
    /\ op = "remove"
    /\ nr_copies = 3
    /\ send_failed = {0}
    /\ attempts = <<0>>

\* C6: a write or create-and-write on a read-only object id returns the
\* read-only error with no connection acquired, nothing sent, and no call to
\* the object cache, with or without cache bypass.
C6_ReadOnlyNoIO ==
    (op \in {"write", "create_and_write"} /\ oid_readonly) =>
        /\ pc \in {"start", "done"}
        /\ pc = "done" => ret = SD_RES_READONLY
        /\ attempts = <<>>
        /\ acquired = {}
        /\ cache_calls = 0
        /\ wret = NoResult
        /\ \A n \in Replicas : Disposals(n) = 0

\* C6 witness: a create-and-write that does not bypass the cache returned the
\* read-only error.
C6_Witness ==
    /\ op = "create_and_write"
    /\ oid_readonly
    /\ ~bypass
    /\ pc = "done"
    /\ ret = SD_RES_READONLY

\* C7: on the non-cache path, when a replica is local and the local read
\* succeeds, gateway_read_obj returns success after that one local read and
\* sends no remote read.
C7_LocalReadNoRemote ==
    (op = "read" /\ local_reads # <<>> /\ local_reads[1] = SD_RES_SUCCESS) =>
        /\ pc = "done"
        /\ ret = SD_RES_SUCCESS
        /\ Len(local_reads) = 1
        /\ rpc_log = <<>>
        /\ cache_calls = 0

\* C7 witness: three replicas, the second one local, the others remote, and
\* the local read succeeded.
C7_Witness ==
    /\ op = "read"
    /\ nr_copies = 3
    /\ local = [k \in 0 .. 2 |-> k = 1]
    /\ local_reads = <<SD_RES_SUCCESS>>
    /\ pc = "done"

\* The replica the fallback loop visits in iteration k (from 0) in the
\* cyclic order (k + j) mod nr_copies.
CyclicReplica(k) == ((j % nr_copies) + k) % nr_copies

\* The remote replicas among the first m of the cyclic order.
RemoteVisits(m) ==
    LET IsRemote(v) == ~local[v]
    IN  SelectSeq([k \in 1 .. m |-> CyclicReplica(k - 1)], IsRemote)

\* Iterations of the fallback loop that have run.
FallbackIterations ==
    IF pc = "fallback" \/ rpc_log = <<>> THEN i
    ELSE IF rpc_log[Len(rpc_log)][2] = SD_RES_SUCCESS THEN i + 1 ELSE i

\* C8: when the local read failed, gateway_read_obj reads locally no second
\* time and visits the replicas in the cyclic order (i + j) mod nr_copies,
\* sending one remote read to each remote replica visited, none twice, and
\* stopping at the first that succeeds.
C8_FallbackCyclicOrder ==
    (op = "read" /\ local_reads # <<>> /\ local_reads[1] # SD_RES_SUCCESS
        /\ pc \in {"fallback", "done", "fault"}) =>
        /\ pc # "fault"
        /\ Len(local_reads) = 1
        /\ [k \in 1 .. Len(rpc_log) |-> rpc_log[k][1]]
              = RemoteVisits(FallbackIterations)
        /\ \A k \in 1 .. Len(rpc_log) - 1 : rpc_log[k][2] # SD_RES_SUCCESS
        /\ \A k, m \in 1 .. Len(rpc_log) :
              rpc_log[k][1] = rpc_log[m][1] => k = m

\* C9: when every poll times out, the waiter polls MAX_RETRY_COUNT + 1 times
\* while sheep_need_retry answers true and then returns the network error
\* with every pending connection evicted and none released; an answer of
\* false makes it return in the same way at that timeout.
C9_TimeoutBudget ==
    /\ (wret # NoResult /\ ~other_polls) =>
          /\ wret = SD_RES_NETWORK_ERROR
          /\ timed_out
          /\ ~retry_denied => nr_timeouts = MAX_RETRY_COUNT + 1
          /\ retry_denied => nr_timeouts <= MAX_RETRY_COUNT + 1
          /\ Range(fi) = SentSet
          /\ \A n \in SentSet : del_cnt[n] = 1 /\ put_cnt[n] = 0
    /\ retry_denied => wret = SD_RES_NETWORK_ERROR /\ timed_out
    /\ (~other_polls /\ wret = NoResult) => nr_timeouts <= MAX_RETRY_COUNT

\* C9 witness: two pending entries, every poll timed out, sheep_need_retry
\* always answered true, and the waiter returned.
C9_Witness ==
    /\ wret = SD_RES_NETWORK_ERROR
    /\ ~other_polls
    /\ ~retry_denied
    /\ nr_timeouts = MAX_RETRY_COUNT + 1
    /\ Len(fi) = 2
    /\ \A n \in Range(fi) : del_cnt[n] = 1

\* C10: every call returns: with finitely many EINTR interruptions the
\* waiter reaches its return (or the panic of a failed poll) whatever poll
\* reports.
C10_Termination == <>Done

\* C11: wait_forward_request returns success exactly when every entry it
\* was given completed cleanly (header read, result code success); once an
\* entry has failed, err_ret never goes back to success.
C11_SuccessIffAllClean ==
    /\ wret # NoResult =>
          (wret = SD_RES_SUCCESS <=> (hdr_read = SentSet /\ ~any_failed))
    /\ any_failed => w_err_ret # SD_RES_SUCCESS \/ timed_out

\* C11 witness: the first replica's entry failed with a network error, the
\* last entry handled was a clean read answering success, and the waiter
\* still returned the network error.
C11_Witness ==
    /\ wret \notin {NoResult, SD_RES_SUCCESS}
    /\ ~timed_out
    /\ wret = SD_RES_NETWORK_ERROR
    /\ Cardinality(SentSet) = 3
    /\ hdr_read = {1, 2}
    /\ del_cnt[0] = 1
    /\ pi = <<{POLLIN}>>

\* poll has been called at least once.
PollHappened == pc = "polled" \/ pollret > 0 \/ nr_timeouts > 0 \/ other_polls

\* C14: nothing is awaited before the send loop is over: once
\* wait_forward_request has polled, the call is past its send loop and never
\* goes back to it, so every send was dispatched before the first poll.
C14_SendsBeforeFirstPoll ==
    PollHappened =>
        /\ pc \in {"again", "polled", "done", "panic"}
        /\ Range(attempts) = acquired \cup send_failed
        /\ Range(fi) \subseteq SentSet

\* C14 witness: the first poll of a call with three replicas has returned,
\* and the three requests had been sent before it.
C14_Witness ==
    /\ pc = "polled"
    /\ nr_timeouts = 0
    /\ ~other_polls
    /\ nr_copies = 3
    /\ attempts = <<0, 1, 2>>
    /\ fi = <<0, 1, 2>>

\* C15 as stated: a read performs at most one local read and at most
\* nr_copies - 1 remote reads, wherever the replicas are.
C15_AtMostNMinusOneRemote ==
    op = "read" => Len(local_reads) <= 1 /\ Len(rpc_log) <= nr_copies - 1

\* C15 amended: a read performs at most one local read and at most nr_copies
\* remote reads, one per iteration of the fallback loop.
C15_AtMostNRemote ==
    op = "read" => Len(local_reads) <= 1 /\ Len(rpc_log) <= nr_copies

\* C15 witness: no replica is local, and the read returned after a remote
\* read to each of its three replicas.
C15_Witness ==
    /\ op = "read"
    /\ pc = "done"
    /\ nr_copies = 3
    /\ \A k \in Replicas : ~local[k]
    /\ local_reads = <<>>
    /\ Len(rpc_log) = 3

\* C16: the waiter returns the first non-success result code a replica
\* answered: once err_ret holds such a code, no later answer and no later
\* network error replaces it, and it is the value returned.
C16_FirstNonSuccessWins ==
    [][(pc \in {"again", "polled"} /\ w_err_ret \in {SD_RES_EIO, SD_RES_NO_OBJ})
          => /\ w_err_ret' = w_err_ret
             /\ wret' # NoResult => wret' = w_err_ret]_vars

ErrFlags == {POLLERR, POLLHUP, POLLNVAL}

\* poll has just reported an error flag for the pending entry of replica n.
ErrShown(n) ==
    /\ n < nr_copies
    /\ pc = "polled"
    /\ \E k \in 1 .. Len(fi) : fi[k] = n /\ pi[k] \cap ErrFlags # {}

Released(n) == n < nr_copies /\ put_cnt[n] > 0
Evicted(n) == n < nr_copies /\ del_cnt[n] > 0

\* The part of C17 about the entries the waiter handles: a connection is
\* released exactly when its header was read, an entry handled otherwise is
\* evicted, and so is every entry pending at the final timeout.
HandledDisposition ==
    \A n \in Replicas :
        /\ put_cnt[n] = 1 <=> n \in hdr_read
        /\ n \in hdr_read => del_cnt[n] = 0
        /\ (n \in SentSet /\ n \notin Range(fi) /\ n \notin hdr_read)
              => del_cnt[n] = 1
        /\ (timed_out /\ n \in Range(fi)) => del_cnt[n] = 1 /\ put_cnt[n] = 0

\* C17: a connection is released to the pool exactly when its response
\* header was read without a transport failure, and an entry whose read
\* fails or which is pending at the final timeout is evicted; an entry whose
\* readiness shows an error flag is disposed of (the claim says: by eviction)
\* unless the waiter panics.
C17_Disposition ==
    /\ []HandledDisposition
    /\ \A n \in 0 .. MaxCopies - 1 :
          ErrShown(n) ~> (Evicted(n) \/ Released(n) \/ pc = "panic")

\* C18: a pass whose poll reported a ready entry removes exactly one entry,
\* and when every ready entry reports an error flag the entry removed is
\* classified as a network error.
C18_ReadyPassRemovesOne ==
    (pollret > 0 /\ pc # "polled") =>
        /\ Len(fi) = Len(pi) - 1
        /\ (\A k \in 1 .. Len(pi) : pi[k] # {} => pi[k] \cap ErrFlags # {})
              => any_failed

\* Timeouts that were retried.
RetriedTimeouts == nr_timeouts - (IF timed_out THEN 1 ELSE 0)

\* C19: repeat is one budget for the whole call: it is MAX_RETRY_COUNT less
\* the timeouts retried so far, whatever else happened (EINTR, entries
\* handled), so at most MAX_RETRY_COUNT timeouts are retried.
C19_SingleBudget ==
    /\ repeat = MAX_RETRY_COUNT - RetriedTimeouts
    /\ repeat >= 0
    /\ RetriedTimeouts <= MAX_RETRY_COUNT

\* C19 witness: a call in which poll was interrupted, an entry was read and
\* the whole budget of timeouts was used before the final timeout.
C19_Witness ==
    /\ timed_out
    /\ nr_timeouts = MAX_RETRY_COUNT + 1
    /\ repeat = 0
    /\ eintr_cnt > 0
    /\ hdr_read # {}

\* C20: for the offset j drawn, idx = (i + j) % nr_copies lies in
\* 0 .. nr_copies-1 for every i, and takes each replica index once.
C20_IdxIsPermutation ==
    (op = "read" /\ pc = "fallback") =>
        /\ \A ii \in Replicas : FallbackIdx(ii, j, nr_copies) \in Replicas
        /\ \A v \in Replicas :
              Cardinality({ii \in Replicas : FallbackIdx(ii, j, nr_copies) = v}) = 1

\* The call is a read that follows a write that returned success.
AfterWrite == op = "read" /\ \E n \in Replicas : store[n] # OldData

\* No replica failed the read: every local read and remote read succeeded.
ReadClean ==
    /\ \A k \in 1 .. Len(local_reads) : local_reads[k] = SD_RES_SUCCESS
    /\ \A k \in 1 .. Len(rpc_log) : rpc_log[k][2] = SD_RES_SUCCESS

\* C12: after a write that returned success, a read of the same object with
\* the cache bypassed and no failure returns the data of that write,
\* whichever replica serves it: the local one or the remote one at the
\* random offset.
C12_SequentialFreshness ==
    (AfterWrite /\ pc = "done" /\ ReadClean) =>
        /\ ret = SD_RES_SUCCESS
        /\ ReadServer \in Replicas
        /\ store[ReadServer] = NewData
        /\ \A n \in Replicas : store[n] = NewData

\* C12 witness: three replicas were written, none of them is local to the
\* reading gateway, and the read was served by the remote replica at the
\* offset random() = INT_MAX.
C12_Witness ==
    /\ AfterWrite
    /\ pc = "done"
    /\ ret = SD_RES_SUCCESS
    /\ nr_copies = 3
    /\ local_reads = <<>>
    /\ j = INT_MAX
    /\ rpc_log = <<<<1, SD_RES_SUCCESS>>>>
    /\ store[1] = NewData

\* C13 as stated: the replicas that applied both concurrent writes applied
\* them in the same order.
C13_SameOrderEverywhere ==
    \A n \in Replicas : \A m \in Replicas :
        (Len(applied[n]) = 2 /\ Len(applied[m]) = 2) => applied[n] = applied[m]

\* C13 amended: when a write call was issued after the other call to the
\* object had returned success, every replica has applied the earlier write,
\* and a replica that applies the later one applies it second.
C13_OrderedAfterSuccess ==
    \A c \in Calls :
        cw_after[c] =>
            \A n \in Replicas :
                /\ applied[n] # <<>>
                /\ applied[n][1] = OtherCall(c)
                /\ c \in Range(applied[n]) => applied[n] = <<OtherCall(c), c>>

\* C13 witness: call 2 was issued after call 1 had returned success, both
\* have returned, and the three replicas applied call 1 and then call 2.
C13_Witness ==
    /\ cw_after[2]
    /\ ConcSucceeded(1)
    /\ ConcSucceeded(2)
    /\ nr_copies = 3
    /\ \A n \in Replicas : applied[n] = <<1, 2>>

====
